---- MODULE Spec2Model ----
(***************************************************************************)
(* Model of src/app.py: the HotelManagement store (rooms, customers,       *)
(* bookings), its six mutating operations, and the CSV persistence         *)
(* (save_data / load_data).                                                *)
(*                                                                         *)
(* Text.  A Python str is modelled as a sequence of characters.  The       *)
(* characters the code inspects (whitespace, digits, sign, the CSV         *)
(* delimiter, quote and line ends) are single characters; a run of         *)
(* ordinary letters that no code looks inside ("Deluxe", "room_number")    *)
(* is kept as one element of the sequence.  CR and LF stand for \r and \n. *)
(*                                                                         *)
(* A dict is modelled as the sequence of its entries in insertion order    *)
(* (Python dicts keep insertion order; save_data and checkout iterate in   *)
(* it).  Keys are unique within a dict.                                    *)
(***************************************************************************)
EXTENDS Integers, Sequences, FiniteSets, TLC

VARIABLES
    rooms,          \* self.rooms      : entries [key, room_type, price, is_occupied]
    customers,      \* self.customers  : entries [key, name, phone]
    bookings,       \* self.bookings   : entries [key, customer_id, room_number]
    rooms_csv,      \* data/rooms.csv      : [exists, lines]
    customers_csv,  \* data/customers.csv  : [exists, lines]
    bookings_csv,   \* data/bookings.csv   : [exists, lines]
    call,           \* the last operation called and its raw arguments
    ret,            \* what that call returned: [ok, msg]
    held            \* history: <<customer, room>> pairs booked and not checked out since

vars == <<rooms, customers, bookings, rooms_csv, customers_csv, bookings_csv,
          call, ret, held>>

-----------------------------------------------------------------------------
(* Characters and text *)

CR == "CR"
LF == "LF"
SP == " "
QUOTE == "\""
COMMA == ","

\* the characters str.strip() removes
Whitespace == {SP, CR, LF}

Digits == <<"0", "1", "2", "3", "4", "5", "6", "7", "8", "9">>

IsDigit(c) == \E d \in 1..10 : Digits[d] = c

DigitVal(c) == (CHOOSE d \in 1..10 : Digits[d] = c) - 1

\* a Python argument: None, or a str
None == [none |-> TRUE, s |-> <<>>]
Str(s) == [none |-> FALSE, s |-> s]

\* a Python number argument: None, or a number
Num(n) == [none |-> FALSE, n |-> n]
NoNum == [none |-> TRUE, n |-> 0]

RECURSIVE LStrip(_)
LStrip(s) ==
    IF s # <<>> /\ Head(s) \in Whitespace THEN LStrip(Tail(s)) ELSE s

RECURSIVE RStrip(_)
RStrip(s) ==
    IF s # <<>> /\ s[Len(s)] \in Whitespace
    THEN RStrip(SubSeq(s, 1, Len(s) - 1))
    ELSE s

Strip(s) == RStrip(LStrip(s))

\* _norm(value): str(value).strip() if value else ''
_norm(value) ==
    IF value.none \/ value.s = <<>> THEN <<>> ELSE Strip(value.s)

RECURSIVE DigitsValue(_, _)
DigitsValue(s, acc) ==
    IF s = <<>> THEN acc ELSE DigitsValue(Tail(s), acc * 10 + DigitVal(Head(s)))

\* int(s) for a str: surrounding whitespace dropped, an optional sign, then
\* one or more digits; anything else raises ValueError (ok = FALSE)
ParseInt(s) ==
    LET t == Strip(s)
        signed == t # <<>> /\ Head(t) \in {"+", "-"}
        body == IF signed THEN Tail(t) ELSE t
        good == body # <<>> /\ \A i \in 1..Len(body) : IsDigit(body[i])
    IN  IF ~good THEN [ok |-> FALSE, val |-> 0]
        ELSE [ok |-> TRUE,
              val |-> IF signed /\ Head(t) = "-"
                      THEN 0 - DigitsValue(body, 0)
                      ELSE DigitsValue(body, 0)]

RECURSIVE NatChars(_)
NatChars(n) ==
    IF n < 10 THEN <<Digits[n + 1]>>
    ELSE NatChars(n \div 10) \o <<Digits[(n % 10) + 1]>>

\* str(x) of a float with an integral value, e.g. 150.0
FloatStr(n) ==
    (IF n < 0 THEN <<"-">> \o NatChars(0 - n) ELSE NatChars(n)) \o <<".", "0">>

\* float(s) of such a text
ParseFloat(s) ==
    LET n == Len(s)
    IN  IF n >= 3 /\ s[n - 1] = "." /\ s[n] = "0"
        THEN ParseInt(SubSeq(s, 1, n - 2))
        ELSE [ok |-> FALSE, val |-> 0]

\* str(b) of a bool
BoolStr(b) == IF b THEN <<"True">> ELSE <<"False">>

LowerChar(c) ==
    IF c = "True" THEN "true" ELSE IF c = "False" THEN "false" ELSE c

\* s.lower()
Lower(s) == [i \in 1..Len(s) |-> LowerChar(s[i])]

-----------------------------------------------------------------------------
(* dict operations on insertion-ordered entry sequences *)

\* key in d
DictHas(d, k) == \E i \in 1..Len(d) : d[i].key = k

DictIndex(d, k) == CHOOSE i \in 1..Len(d) : d[i].key = k

\* d[key]
DictGet(d, k) == d[DictIndex(d, k)]

\* d[key] = value : an existing key keeps its position, a new one goes last
DictSet(d, e) ==
    IF DictHas(d, e.key)
    THEN [d EXCEPT ![DictIndex(d, e.key)] = e]
    ELSE Append(d, e)

\* del d[key]
DictDel(d, k) ==
    LET i == DictIndex(d, k)
    IN  SubSeq(d, 1, i - 1) \o SubSeq(d, i + 1, Len(d))

\* The dict built from empty by d[e.key] = e for the entries es in turn:
\* a key stands where it was first assigned and holds what was assigned last
DictOf(es) ==
    LET firsts == SelectSeq([i \in 1..Len(es) |-> i],
                            LAMBDA i : \A j \in 1..(i - 1) : es[j].key # es[i].key)
        last(k) == CHOOSE j \in 1..Len(es) :
                       /\ es[j].key = k
                       /\ \A m \in (j + 1)..Len(es) : es[m].key # k
    IN  [n \in 1..Len(firsts) |-> es[last(es[firsts[n]].key)]]

\* d1 == d2 for two dicts: the same keys with the same values, in any order
DictEq(d1, d2) ==
    {d1[i] : i \in 1..Len(d1)} = {d2[i] : i \in 1..Len(d2)}

-----------------------------------------------------------------------------
(* csv.DictWriter / csv.DictReader over text files *)

\* the characters that make the writer quote a field (QUOTE_MINIMAL: the
\* delimiter, the quote character, and the characters of the line terminator)
NeedsQuote(f) == \E i \in 1..Len(f) : f[i] \in {COMMA, QUOTE, CR, LF}

RECURSIVE DoubleQuotes(_)
DoubleQuotes(f) ==
    IF f = <<>> THEN <<>>
    ELSE (IF Head(f) = QUOTE THEN <<QUOTE, QUOTE>> ELSE <<Head(f)>>)
         \o DoubleQuotes(Tail(f))

WriteField(f) ==
    IF NeedsQuote(f) THEN <<QUOTE>> \o DoubleQuotes(f) \o <<QUOTE>> ELSE f

RECURSIVE JoinFields(_)
JoinFields(fs) ==
    IF fs = <<>> THEN <<>>
    ELSE IF Len(fs) = 1 THEN WriteField(fs[1])
    ELSE WriteField(fs[1]) \o <<COMMA>> \o JoinFields(Tail(fs))

\* writer.writerow: the fields, then the line terminator \r\n, written
\* untranslated because the file is opened with newline=''
WriteRow(fs) == JoinFields(fs) \o <<CR, LF>>

\* A file that does not exist, and a file as the sequence of the texts
\* written to it (one per writerow call)
NoFile == [exists |-> FALSE, lines |-> <<>>]
WriteFile(header, rows) ==
    [exists |-> TRUE,
     lines |-> <<WriteRow(header)>> \o [i \in 1..Len(rows) |-> WriteRow(rows[i])]]

\* open(path, 'r') without newline='': universal newlines, so on reading
\* every \r\n and every lone \r arrives as \n
UniversalNewlines(t) ==
    LET \* an LF right after a CR is the second half of one line end
        kept == SelectSeq([i \in 1..Len(t) |-> i],
                          LAMBDA i : ~(t[i] = LF /\ i > 1 /\ t[i - 1] = CR))
    IN  [k \in 1..Len(kept) |-> IF t[kept[k]] = CR THEN LF ELSE t[kept[k]]]

\* The csv reader's state machine over a text t from position i:
\* st is the parser state, f the field and row the record being built,
\* recs the records finished so far.
RECURSIVE ReadRecords(_, _, _, _, _, _)
ReadRecords(t, i, st, f, row, recs) ==
    IF i > Len(t)
    THEN IF st = "start_record" THEN recs ELSE Append(recs, Append(row, f))
    ELSE LET c == t[i]
         IN  CASE st = "start_record" ->
                    IF c = LF THEN ReadRecords(t, i + 1, "start_record", <<>>, <<>>, recs)
                    ELSE ReadRecords(t, i, "start_field", <<>>, <<>>, recs)
               [] st = "start_field" ->
                    IF c = QUOTE THEN ReadRecords(t, i + 1, "in_quoted", <<>>, row, recs)
                    ELSE IF c = COMMA
                    THEN ReadRecords(t, i + 1, "start_field", <<>>, Append(row, <<>>), recs)
                    ELSE IF c = LF
                    THEN ReadRecords(t, i + 1, "start_record", <<>>, <<>>,
                                     Append(recs, Append(row, <<>>)))
                    ELSE ReadRecords(t, i + 1, "in_field", <<c>>, row, recs)
               [] st = "in_field" ->
                    IF c = COMMA
                    THEN ReadRecords(t, i + 1, "start_field", <<>>, Append(row, f), recs)
                    ELSE IF c = LF
                    THEN ReadRecords(t, i + 1, "start_record", <<>>, <<>>,
                                     Append(recs, Append(row, f)))
                    ELSE ReadRecords(t, i + 1, "in_field", Append(f, c), row, recs)
               [] st = "in_quoted" ->
                    IF c = QUOTE THEN ReadRecords(t, i + 1, "quote_in_quoted", f, row, recs)
                    ELSE ReadRecords(t, i + 1, "in_quoted", Append(f, c), row, recs)
               [] st = "quote_in_quoted" ->
                    IF c = QUOTE THEN ReadRecords(t, i + 1, "in_quoted", Append(f, c), row, recs)
                    ELSE IF c = COMMA
                    THEN ReadRecords(t, i + 1, "start_field", <<>>, Append(row, f), recs)
                    ELSE IF c = LF
                    THEN ReadRecords(t, i + 1, "start_record", <<>>, <<>>,
                                     Append(recs, Append(row, f)))
                    ELSE ReadRecords(t, i + 1, "in_field", Append(f, c), row, recs)

\* The records of a file: each written line is read in text mode and parsed.
\* (The writer quotes every field that holds a line end, so a written line
\* ends exactly where a record ends and the lines can be parsed one by one.)
RECURSIVE ReadLines(_)
ReadLines(lines) ==
    IF lines = <<>> THEN <<>>
    ELSE ReadRecords(UniversalNewlines(Head(lines)), 1, "start_record", <<>>, <<>>, <<>>)
         \o ReadLines(Tail(lines))

\* row[name] of a csv.DictReader row: the field under the header's column
Field(header, row, name) ==
    row[CHOOSE j \in 1..Len(header) : header[j] = <<name>>]

\* csv.DictReader(f): the first record is the header, the others the rows
DictRows(file) ==
    LET recs == ReadLines(file.lines)
    IN  IF recs = <<>> THEN [header |-> <<>>, rows |-> <<>>]
        ELSE [header |-> Head(recs), rows |-> Tail(recs)]

-----------------------------------------------------------------------------
(* save_data and load_data *)

RoomsHeader == <<<<"room_number">>, <<"room_type">>, <<"price">>, <<"is_occupied">>>>
CustomersHeader == <<<<"customer_id">>, <<"name">>, <<"phone">>>>
BookingsHeader == <<<<"booking_id">>, <<"customer_id">>, <<"room_number">>>>

\* the rooms.csv that save_data writes for the rooms mapping r
SaveRooms(r) ==
    WriteFile(RoomsHeader,
              [i \in 1..Len(r) |->
                  <<r[i].key, r[i].room_type, FloatStr(r[i].price),
                    BoolStr(r[i].is_occupied)>>])

SaveCustomers(c) ==
    WriteFile(CustomersHeader,
              [i \in 1..Len(c) |-> <<c[i].key, c[i].name, c[i].phone>>])

SaveBookings(b) ==
    WriteFile(BookingsHeader,
              [i \in 1..Len(b) |-> <<b[i].key, b[i].customer_id, b[i].room_number>>])

\* for row in reader: self.rooms[row['room_number']] = {...}
LoadRooms(file) ==
    IF ~file.exists THEN <<>>
    ELSE LET h == DictRows(file).header
             rows == DictRows(file).rows
         IN  DictOf([i \in 1..Len(rows) |->
                [key |-> Field(h, rows[i], "room_number"),
                 room_type |-> Field(h, rows[i], "room_type"),
                 price |-> ParseFloat(Field(h, rows[i], "price")).val,
                 is_occupied |-> Lower(Field(h, rows[i], "is_occupied")) = <<"true">>]])

LoadCustomers(file) ==
    IF ~file.exists THEN <<>>
    ELSE LET h == DictRows(file).header
             rows == DictRows(file).rows
         IN  DictOf([i \in 1..Len(rows) |->
                [key |-> Field(h, rows[i], "customer_id"),
                 name |-> Field(h, rows[i], "name"),
                 phone |-> Field(h, rows[i], "phone")]])

LoadBookings(file) ==
    IF ~file.exists THEN <<>>
    ELSE LET h == DictRows(file).header
             rows == DictRows(file).rows
         IN  DictOf([i \in 1..Len(rows) |->
                [key |-> Field(h, rows[i], "booking_id"),
                 customer_id |-> Field(h, rows[i], "customer_id"),
                 room_number |-> Field(h, rows[i], "room_number")]])

-----------------------------------------------------------------------------
(* The store and the results of its operations *)

\* self.max_rooms
max_rooms == 20

Store == [rooms |-> rooms, customers |-> customers, bookings |-> bookings]

\* return False, msg : nothing was assigned and save_data was not called
Fail(S, msg) ==
    [ok |-> FALSE, msg |-> msg, saved |-> FALSE,
     rooms |-> S.rooms, customers |-> S.customers, bookings |-> S.bookings]

\* self.save_data() ; return True, msg : with the mappings as assigned
Done(r, c, b, msg) ==
    [ok |-> TRUE, msg |-> msg, saved |-> TRUE,
     rooms |-> r, customers |-> c, bookings |-> b]

\* key in d, for a raw argument (None is in no mapping)
HasRaw(d, v) == ~v.none /\ DictHas(d, v.s)

\* the range check with its lower bound off by one
RoomNumberInRange_FromThousand(n) == 1000 <= n /\ n <= 1020

\* 1001 <= int(room_number) <= 1020
RoomNumberInRange(n) == 1001 <= n /\ n <= 1020

\* the capacity check with > for >=
AtCapacity_OffByOne(r) == Len(r) > max_rooms

\* len(self.rooms) >= self.max_rooms
AtCapacity(r) == Len(r) >= max_rooms

\* the loop over existing customers with only its second check, which
\* wants the name to match as well
ExistingClash_NameAndPhoneOnly(c, name, phone) ==
    IF \E i \in 1..Len(c) : Strip(c[i].name) = name /\ Strip(c[i].phone) = phone
    THEN "Customer already exists"
    ELSE ""

\* for existing in self.customers.values(): the message of the first check
\* that some existing customer meets ("" when the loop runs through):
\* the same phone, or the same name and phone
ExistingClash(c, name, phone) ==
    LET samePhone(i) == Strip(c[i].phone) = phone
        sameBoth(i) == Strip(c[i].name) = name /\ Strip(c[i].phone) = phone
        hits == {i \in 1..Len(c) : samePhone(i) \/ sameBoth(i)}
    IN  IF hits = {} THEN ""
        ELSE LET i == CHOOSE h \in hits : \A g \in hits : h <= g
             IN  IF samePhone(i)
                 THEN "Customer with this phone already exists"
                 ELSE "Customer already exists"

\* any(b['customer_id'] == customer_id for b in self.bookings.values())
CustomerHasBooking(b, customer_id) ==
    \E i \in 1..Len(b) : b[i].customer_id = customer_id

\* the id without the + 1
NextBookingId_NoPlusOne(b) == <<"B">> \o NatChars(Len(b))

\* f"B{len(self.bookings) + 1}"
NextBookingId(b) == <<"B">> \o NatChars(Len(b) + 1)

\* self.rooms[room_number]['is_occupied'] = value
SetOccupied(r, k, value) ==
    [r EXCEPT ![DictIndex(r, k)].is_occupied = value]

\* the checkout loop deleting nothing
DelFirstBookingOf_Keep(b, room_number) == b

\* for bid, booking in list(self.bookings.items()):
\*     if booking['room_number'] == room_number: del self.bookings[bid]; break
DelFirstBookingOf(b, room_number) ==
    IF \E i \in 1..Len(b) : b[i].room_number = room_number
    THEN LET i == CHOOSE j \in 1..Len(b) :
                      /\ b[j].room_number = room_number
                      /\ \A k \in 1..(j - 1) : b[k].room_number # room_number
         IN  DictDel(b, b[i].key)
    ELSE b

add_room(S, room_number, room_type, price) ==
    LET rn == _norm(room_number)
        rt == _norm(room_type)
    IN  IF rn = <<>> \/ rt = <<>> \/ price.none \/ price.n <= 0
        THEN Fail(S, "Invalid room details")
        ELSE IF ~ParseInt(rn).ok
        THEN Fail(S, "Error adding room: {e}")
        ELSE IF ~RoomNumberInRange(ParseInt(rn).val)
        THEN Fail(S, "Room number must be between 1001-1020")
        ELSE IF DictHas(S.rooms, rn)
        THEN Fail(S, "Room {room_number} already exists")
        ELSE IF AtCapacity(S.rooms)
        THEN Fail(S, "Cannot add more rooms. Capacity {max_rooms} reached")
        ELSE Done(DictSet(S.rooms, [key |-> rn, room_type |-> rt,
                                    price |-> price.n, is_occupied |-> FALSE]),
                  S.customers, S.bookings, "Room {room_number} added successfully")

\* remove_room without the check of the occupancy flag
remove_room_NoOccupiedCheck(S, room_number) ==
    IF ~HasRaw(S.rooms, room_number)
    THEN Fail(S, "Room not found")
    ELSE Done(DictDel(S.rooms, room_number.s), S.customers, S.bookings,
              "Room {room_number} removed")

remove_room(S, room_number) ==
    IF ~HasRaw(S.rooms, room_number)
    THEN Fail(S, "Room not found")
    ELSE IF DictGet(S.rooms, room_number.s).is_occupied
    THEN Fail(S, "Room is occupied")
    ELSE Done(DictDel(S.rooms, room_number.s), S.customers, S.bookings,
              "Room {room_number} removed")

add_customer(S, customer_id, name, phone) ==
    LET cid == _norm(customer_id)
        nm == _norm(name)
        ph == _norm(phone)
    IN  IF cid = <<>> \/ nm = <<>> \/ ph = <<>>
        THEN Fail(S, "Invalid customer details")
        ELSE IF DictHas(S.customers, cid)
        THEN Fail(S, "Customer ID exists")
        ELSE IF ExistingClash(S.customers, nm, ph) # ""
        THEN Fail(S, ExistingClash(S.customers, nm, ph))
        ELSE Done(S.rooms,
                  DictSet(S.customers, [key |-> cid, name |-> nm, phone |-> ph]),
                  S.bookings, "Customer {name} added")

remove_customer(S, customer_id) ==
    IF ~HasRaw(S.customers, customer_id)
    THEN Fail(S, "Customer not found")
    ELSE IF CustomerHasBooking(S.bookings, customer_id.s)
    THEN Fail(S, "Customer has active bookings")
    ELSE Done(S.rooms, DictDel(S.customers, customer_id.s), S.bookings,
              "Customer removed")

\* book_room without the check that the customer has no booking yet
book_room_NoBookingCheck(S, customer_id, room_number) ==
    LET cid == _norm(customer_id)
        rn == _norm(room_number)
    IN  IF ~(DictHas(S.customers, cid) /\ DictHas(S.rooms, rn))
        THEN Fail(S, "Invalid customer or room")
        ELSE IF DictGet(S.rooms, rn).is_occupied
        THEN Fail(S, "Room is occupied")
        ELSE Done(SetOccupied(S.rooms, rn, TRUE), S.customers,
                  DictSet(S.bookings, [key |-> NextBookingId(S.bookings),
                                       customer_id |-> cid, room_number |-> rn]),
                  "Room {room_number} booked")

book_room(S, customer_id, room_number) ==
    LET cid == _norm(customer_id)
        rn == _norm(room_number)
    IN  IF ~(DictHas(S.customers, cid) /\ DictHas(S.rooms, rn))
        THEN Fail(S, "Invalid customer or room")
        ELSE IF DictGet(S.rooms, rn).is_occupied
        THEN Fail(S, "Room is occupied")
        ELSE IF CustomerHasBooking(S.bookings, cid)
        THEN Fail(S, "Customer already has an active booking")
        ELSE Done(SetOccupied(S.rooms, rn, TRUE), S.customers,
                  DictSet(S.bookings, [key |-> NextBookingId(S.bookings),
                                       customer_id |-> cid, room_number |-> rn]),
                  "Room {room_number} booked")

checkout(S, room_number) ==
    IF ~HasRaw(S.rooms, room_number)
    THEN Fail(S, "Room not found")
    ELSE IF ~DictGet(S.rooms, room_number.s).is_occupied
    THEN Fail(S, "Room not occupied")
    ELSE Done(SetOccupied(S.rooms, room_number.s, FALSE), S.customers,
              DelFirstBookingOf(S.bookings, room_number.s),
              "Room {room_number} checked out")

-----------------------------------------------------------------------------
(* Actions: one call of an operation on the process-wide store *)

\* The effect of a call that returned r: the mappings as the operation left
\* them, the three files rewritten if it called save_data, and the record of
\* the call and its result.
Returns(op, args, r, h) ==
    /\ rooms' = r.rooms
    /\ customers' = r.customers
    /\ bookings' = r.bookings
    /\ rooms_csv' = IF r.saved THEN SaveRooms(r.rooms) ELSE rooms_csv
    /\ customers_csv' = IF r.saved THEN SaveCustomers(r.customers) ELSE customers_csv
    /\ bookings_csv' = IF r.saved THEN SaveBookings(r.bookings) ELSE bookings_csv
    /\ call' = [op |-> op, args |-> args]
    /\ ret' = [ok |-> r.ok, msg |-> r.msg]
    /\ held' = h

AddRoom(I) ==
    \E a \in I.add_room :
        Returns("add_room", a, add_room(Store, a[1], a[2], a[3]), held)

RemoveRoom(I) ==
    \E a \in I.remove_room :
        Returns("remove_room", a, remove_room(Store, a[1]), held)

AddCustomer(I) ==
    \E a \in I.add_customer :
        Returns("add_customer", a, add_customer(Store, a[1], a[2], a[3]), held)

RemoveCustomer(I) ==
    \E a \in I.remove_customer :
        Returns("remove_customer", a, remove_customer(Store, a[1]), held)

BookRoom(I) ==
    \E a \in I.book_room :
        LET r == book_room(Store, a[1], a[2])
        IN  Returns("book_room", a, r,
                    IF r.ok THEN held \cup {<<_norm(a[1]), _norm(a[2])>>} ELSE held)

Checkout(I) ==
    \E a \in I.checkout :
        LET r == checkout(Store, a[1])
        IN  Returns("checkout", a, r,
                    IF r.ok THEN {p \in held : p[2] # a[1].s} ELSE held)

-----------------------------------------------------------------------------
(* The arguments the calls are made with *)

R1001 == <<"1", "0", "0", "1">>
R1002 == <<"1", "0", "0", "2">>
\* " 1001 ": normalises to "1001"
R1001sp == <<SP, "1", "0", "0", "1", SP>>
R1021 == <<"1", "0", "2", "1">>
R1000 == <<"1", "0", "0", "0">>
\* "-1001": an integer, far below the range
Rminus1001 == <<"-", "1", "0", "0", "1">>
R1019 == <<"1", "0", "1", "9">>
R1020 == <<"1", "0", "2", "0">>
\* "01020": int() gives 1020, the str is another key than "1020"
R01020 == <<"0", "1", "0", "2", "0">>

Deluxe == Str(<<"Deluxe">>)
Suite == Str(<<"Suite">>)

C1 == <<"C", "1">>
C2 == <<"C", "2">>
C3 == <<"C", "3">>
C1sp == <<SP, "C", "1", SP>>

Ann == <<"Ann">>
\* a name with a carriage return inside: "Ann\rLee"
AnnCRLee == <<"Ann", CR, "Lee">>

P1 == <<"5", "5", "1">>
P2 == <<"5", "5", "2">>
P1sp == <<SP, "5", "5", "1", SP>>

Inputs ==
    [add_room |->
        {<<Str(n), Deluxe, Num(150)>> :
            n \in {R1001, R1002, R1001sp, R1021, R1000, Rminus1001, <<"x">>, <<>>}}
        \cup {<<None, Deluxe, Num(150)>>, <<Str(R1001), None, Num(150)>>,
              <<Str(R1002), Suite, NoNum>>, <<Str(R1002), Suite, Num(0)>>},
     remove_room |-> {<<Str(R1001)>>, <<Str(R1002)>>, <<Str(R1001sp)>>, <<None>>},
     add_customer |->
        {<<Str(C1), Str(Ann), Str(P1)>>, <<Str(C1sp), Str(Ann), Str(P1)>>,
         <<Str(C2), Str(AnnCRLee), Str(P1)>>, <<Str(C2), Str(AnnCRLee), Str(P2)>>,
         <<Str(C2), Str(Ann), Str(P1sp)>>,
         <<None, Str(Ann), Str(P1)>>, <<Str(C1), None, Str(P1)>>,
         <<Str(C1), Str(Ann), None>>},
     remove_customer |-> {<<Str(C1)>>, <<Str(C2)>>, <<Str(C1sp)>>, <<None>>},
     book_room |->
        {<<Str(c), Str(n)>> : c \in {C1, C2}, n \in {R1001, R1002}}
        \cup {<<Str(C1sp), Str(R1001sp)>>, <<Str(C3), Str(R1001)>>,
              <<Str(C1), Str(R1021)>>, <<None, None>>},
     checkout |-> {<<Str(R1001)>>, <<Str(R1002)>>, <<Str(R1001sp)>>, <<None>>}]

\* The calls made on a store that starts almost full
CapInputs ==
    [add_room |-> {<<Str(R1019), Deluxe, Num(150)>>, <<Str(R1020), Suite, Num(150)>>,
                   <<Str(R01020), Suite, Num(150)>>, <<Str(R1021), Suite, Num(150)>>},
     remove_room |-> {<<Str(R1019)>>, <<Str(R1020)>>},
     add_customer |-> {<<Str(C1), Str(Ann), Str(P1)>>},
     remove_customer |-> {<<Str(C1)>>},
     book_room |-> {<<Str(C1), Str(R1019)>>, <<Str(C1), Str(R1020)>>},
     checkout |-> {<<Str(R1019)>>, <<Str(R1020)>>}]

-----------------------------------------------------------------------------
(* Specifications *)

\* hotel = HotelManagement(): the mappings are what load_data reads from
\* the files found at start
Constructed(rf, cf, bf) ==
    /\ rooms_csv = rf
    /\ customers_csv = cf
    /\ bookings_csv = bf
    /\ rooms = LoadRooms(rf)
    /\ customers = LoadCustomers(cf)
    /\ bookings = LoadBookings(bf)
    /\ call = [op |-> "__init__", args |-> <<>>]
    /\ ret = [ok |-> TRUE, msg |-> ""]
    /\ held = {}

\* an empty store: no data files exist
Init == Constructed(NoFile, NoFile, NoFile)

Ops(I) ==
    \/ AddRoom(I)
    \/ RemoveRoom(I)
    \/ AddCustomer(I)
    \/ RemoveCustomer(I)
    \/ BookRoom(I)
    \/ Checkout(I)

Next == Ops(Inputs)

Spec == Init /\ [][Next]_vars

\* the number of rooms already on file when the almost-full store starts
PreloadedRooms == 19

\* rooms 1001, 1002, ... as an earlier run saved them, all free
PreloadedRoomsFile ==
    SaveRooms([i \in 1..PreloadedRooms |->
                  [key |-> NatChars(1000 + i), room_type |-> <<"Deluxe">>,
                   price |-> 150, is_occupied |-> FALSE]])

InitCap == Constructed(PreloadedRoomsFile, SaveCustomers(<<>>), SaveBookings(<<>>))

NextCap == Ops(CapInputs)

SpecCap == InitCap /\ [][NextCap]_vars

-----------------------------------------------------------------------------
(* Properties *)

\* the bookings of b that reference room k / customer c
BookingsOfRoom(b, k) == {j \in 1..Len(b) : b[j].room_number = k}
BookingsOfCustomer(b, c) == {j \in 1..Len(b) : b[j].customer_id = c}

MappingsUnchanged == UNCHANGED <<rooms, customers, bookings>>

\* C1: every occupied room is referenced by exactly one booking record.
C1_OccupiedRoomHasOneBooking ==
    \A i \in 1..Len(rooms) :
        rooms[i].is_occupied =>
            Cardinality(BookingsOfRoom(bookings, rooms[i].key)) = 1

\* C2: no two booking records reference the same customer_id, and a
\* book_room call for a customer that a booking already references returns
\* failure and leaves rooms, customers and bookings unchanged.
C2_OneBookingPerCustomer ==
    [][/\ \A i, j \in 1..Len(bookings') :
              i # j => bookings'[i].customer_id # bookings'[j].customer_id
       /\ (/\ call'.op = "book_room"
           /\ BookingsOfCustomer(bookings, _norm(call'.args[1])) # {})
          => (~ret'.ok /\ MappingsUnchanged)]_vars

\* book_room was refused because the customer already holds a booking
C2_Witness ==
    /\ call.op = "book_room"
    /\ ~ret.ok
    /\ ret.msg = "Customer already has an active booking"
    /\ BookingsOfCustomer(bookings, _norm(call.args[1])) # {}

\* C3: for every customer c and room r where book_room(c, r) succeeded and
\* r has not been checked out since, checkout(r) followed at once by
\* book_room(c, r) both succeed and leave r occupied.
C3_CheckoutThenRebook ==
    \A p \in held :
        LET s1 == checkout(Store, Str(p[2]))
            s2 == book_room(s1, Str(p[1]), Str(p[2]))
        IN  /\ s1.ok
            /\ s2.ok
            /\ DictGet(s2.rooms, p[2]).is_occupied

\* C4: remove_room of an occupied room and remove_customer of a customer
\* that a booking references return failure and leave the three mappings
\* unchanged; no step deletes an occupied room or a customer referenced by
\* a booking.
C4_NoRemovalWhileInUse ==
    [][/\ (/\ call'.op = "remove_room"
           /\ HasRaw(rooms, call'.args[1])
           /\ DictGet(rooms, call'.args[1].s).is_occupied)
          => (~ret'.ok /\ MappingsUnchanged)
       /\ (/\ call'.op = "remove_customer"
           /\ ~call'.args[1].none
           /\ BookingsOfCustomer(bookings, call'.args[1].s) # {})
          => (~ret'.ok /\ MappingsUnchanged)
       /\ \A i \in 1..Len(rooms) :
              rooms[i].is_occupied => DictHas(rooms', rooms[i].key)
       /\ \A j \in 1..Len(bookings) :
              DictHas(customers', bookings[j].customer_id)]_vars

\* remove_room was refused for an occupied room while a booking exists
C4_Witness ==
    /\ call.op = "remove_room"
    /\ ~ret.ok
    /\ ret.msg = "Room is occupied"
    /\ DictGet(rooms, call.args[1].s).is_occupied
    /\ bookings # <<>>

\* C5: the number of rooms never exceeds max_rooms (20), and add_room on a
\* store that holds 20 rooms returns failure and leaves rooms unchanged,
\* whatever its arguments.
C5_Capacity ==
    [][/\ Len(rooms') <= 20
       /\ (call'.op = "add_room" /\ Len(rooms) = 20)
          => (~ret'.ok /\ rooms' = rooms)]_vars

\* add_room of a new, valid, in-range number was refused on a full store
C5_Witness ==
    /\ Len(rooms) = 20
    /\ call.op = "add_room"
    /\ ~ret.ok
    /\ ret.msg = "Cannot add more rooms. Capacity {max_rooms} reached"
    /\ ~DictHas(rooms, _norm(call.args[1]))
    /\ ParseInt(call.args[1].s).val \in 1001..1020

\* C6: no two customer records have the same phone, and add_customer with a
\* phone that (trimmed) an existing customer already has returns failure
\* and leaves customers unchanged.
C6_UniquePhone ==
    [][/\ \A i, j \in 1..Len(customers') :
              i # j => customers'[i].phone # customers'[j].phone
       /\ (/\ call'.op = "add_customer"
           /\ \E i \in 1..Len(customers) :
                  customers[i].phone = _norm(call'.args[3]))
          => (~ret'.ok /\ customers' = customers)]_vars

\* add_customer under a new id was refused for a phone that matches an
\* existing customer's only after trimming
C6_Witness ==
    /\ call.op = "add_customer"
    /\ ~ret.ok
    /\ ret.msg = "Customer with this phone already exists"
    /\ call.args[3].s # _norm(call.args[3])
    /\ ~DictHas(customers, _norm(call.args[1]))
    /\ \E i \in 1..Len(customers) : customers[i].phone = _norm(call.args[3])

\* C7: add_room with a room number whose integer value is outside
\* 1001..1020 returns failure and leaves rooms unchanged; every key of
\* rooms denotes an integer in 1001..1020.
C7_RoomNumberRange ==
    [][/\ \A i \in 1..Len(rooms') :
              /\ ParseInt(rooms'[i].key).ok
              /\ ParseInt(rooms'[i].key).val \in 1001..1020
       /\ (/\ call'.op = "add_room"
           /\ ~call'.args[1].none
           /\ ParseInt(call'.args[1].s).ok
           /\ ParseInt(call'.args[1].s).val \notin 1001..1020)
          => (~ret'.ok /\ rooms' = rooms)]_vars

\* add_room of "1021" with valid type and price was refused, rooms exist
C7_Witness ==
    /\ call.op = "add_room"
    /\ call.args[1] = Str(R1021)
    /\ ~ret.ok
    /\ ret.msg = "Room number must be between 1001-1020"
    /\ rooms # <<>>

\* C8: after every operation, load() from the persisted tables into an
\* empty store reproduces the in-memory rooms, customers and bookings.
C8_SaveLoadRoundTrip ==
    /\ DictEq(LoadRooms(rooms_csv), rooms)
    /\ DictEq(LoadCustomers(customers_csv), customers)
    /\ DictEq(LoadBookings(bookings_csv), bookings)

\* C9: a successful book_room stores the booking under "B" + (number of
\* bookings + 1); when a booking with that id is still present it is
\* replaced, so the id is given to a second booking and the number of
\* bookings does not grow.
C9_BookingIdFromCount ==
    [][(call'.op = "book_room" /\ ret'.ok) =>
          LET id == <<"B">> \o NatChars(Len(bookings) + 1)
          IN  /\ DictHas(bookings', id)
              /\ DictGet(bookings', id) =
                     [key |-> id, customer_id |-> _norm(call'.args[1]),
                      room_number |-> _norm(call'.args[2])]
              /\ DictHas(bookings, id) =>
                     /\ Len(bookings') = Len(bookings)
                     /\ DictGet(bookings, id) # DictGet(bookings', id)]_vars

\* the last call was a successful book_room whose generated id was that of
\* a booking still present: the new booking stands under the id
\* "B" + (number of bookings now + 1), and the room of the booking it
\* replaced is occupied with no booking
C9_Witness ==
    /\ call.op = "book_room"
    /\ ret.ok
    /\ LET id == <<"B">> \o NatChars(Len(bookings) + 1)
       IN  /\ DictHas(bookings, id)
           /\ DictGet(bookings, id).customer_id = _norm(call.args[1])
           /\ DictGet(bookings, id).room_number = _norm(call.args[2])
    /\ \E i \in 1..Len(rooms) :
           rooms[i].is_occupied /\ BookingsOfRoom(bookings, rooms[i].key) = {}

\* C10: every booking record references a customer in customers and a room
\* in rooms, and that room is occupied.
C10_ReferentialIntegrity ==
    \A j \in 1..Len(bookings) :
        /\ DictHas(customers, bookings[j].customer_id)
        /\ DictHas(rooms, bookings[j].room_number)
        /\ DictGet(rooms, bookings[j].room_number).is_occupied

\* a checkout succeeded and another booking is still present
C10_Witness ==
    /\ call.op = "checkout"
    /\ ret.ok
    /\ bookings # <<>>

====
